---------------------------- MODULE Spec2Model ----------------------------
(***************************************************************************)
(* A model of imgdiff: the perceptual comparator (perceptual.go), the      *)
(* Differ contract (diff.go) and the command line tool (cmd/imgdiff).      *)
(*                                                                         *)
(* Numbers.  The program computes in float64.  The model holds a float as  *)
(* a record [m, e] standing for m * 2^e, with a signed mantissa of 15 bits *)
(* (m = 0, or 2^14 <= |m| < 2^15), results truncated toward zero.  The     *)
(* pyramid's luminance maps are held as integers counting multiples of     *)
(* 2^-12, so that its 25-term sums are exact to the last unit as they are  *)
(* (to 2^-52) in float64.  NaN and the infinities are not modelled: the    *)
(* configurations the model draws are positive and finite.                 *)
(*                                                                         *)
(* Intermediate values are passed as operator arguments (the operators     *)
(* named ...Of), which TLC evaluates once.                                 *)
(***************************************************************************)
EXTENDS Integers, Sequences, FiniteSets, TLC

(***************************************************************************)
(* float64 arithmetic                                                      *)
(***************************************************************************)
Two14 == 2^14
Two15 == 2^15

Abs(n) == IF n < 0 THEN -n ELSE n

Sgn(n) == IF n < 0 THEN -1 ELSE 1

Max(i, j) == IF i >= j THEN i ELSE j

FZero == [m |-> 0, e |-> 0]

\* r, with v evaluated first: TLC evaluates an operator's argument where the
\* operator first uses it, which nests the evaluations of a long computation.
Eager(v, r) == IF v = v THEN r ELSE r

\* The number of bits of n, 0 <= n < 2^30.
BitLen(n) == CHOOSE k \in 0..30 : n < 2^k /\ (k = 0 \/ n >= 2^(k - 1))

\* m * 2^e with m shifted right by k bits (left by -k), truncating.
FShift(m, e, k) ==
  IF k > 0 THEN [m |-> Sgn(m) * (Abs(m) \div (2^k)), e |-> e + k]
  ELSE [m |-> m * (2^(-k)), e |-> e + k]

\* The float m * 2^e, normalised to a 15-bit mantissa.
FNorm(m, e) == IF m = 0 THEN FZero ELSE FShift(m, e, BitLen(Abs(m)) - 15)

\* The float of an integer.
FInt(n) == FNorm(n, 0)

FNeg(x) == [m |-> -x.m, e |-> x.e]

FMul(x, y) == FNorm(x.m * y.m, x.e + y.e)

FDiv(x, y) == FNorm(Sgn(x.m) * Sgn(y.m) * ((Abs(x.m) * Two15) \div Abs(y.m)), x.e - y.e - 15)

\* hi + lo for hi.e >= lo.e, neither zero.
FAddOrd(hi, lo) ==
  IF hi.e - lo.e > 15 THEN hi ELSE FNorm(hi.m * (2^(hi.e - lo.e)) + lo.m, lo.e)

FAdd(x, y) ==
  IF x.m = 0 THEN y
  ELSE IF y.m = 0 THEN x
  ELSE IF x.e >= y.e THEN FAddOrd(x, y) ELSE FAddOrd(y, x)

FSub(x, y) == FAdd(x, FNeg(y))

\* x < y and x > y; both are false of no pair here (no NaN is modelled).
FLt(x, y) == FSub(x, y).m < 0

FGt(x, y) == FSub(x, y).m > 0

\* The float of the decimal literal n / d.
FDec(n, d) == FDiv(FInt(n), FInt(d))

\* math.Max
FMax(x, y) == IF FLt(x, y) THEN y ELSE x

\* Bits 1..14 of log2(y / 2^14) for a mantissa y, by repeated squaring.
RECURSIVE Log2Frac(_, _, _)
Log2Frac(y, i, acc) ==
  IF i > 14 THEN acc
  ELSE IF (y * y) \div Two14 >= Two15
       THEN Log2Frac((y * y) \div Two15, i + 1, acc + 2^(14 - i))
       ELSE Log2Frac((y * y) \div Two14, i + 1, acc)

\* log2 of a positive float.
FLog2(x) == Eager(x, FNorm((x.e + 14) * Two14 + Log2Frac(x.m, 1, 0), -14))

\* 2^(2^-i) for i = 1..14, in units of 2^-14.
Exp2Tab == <<23170, 19484, 17867, 17109, 16743, 16562, 16473,
             16428, 16406, 16395, 16390, 16387, 16385, 16385>>

RECURSIVE Exp2Frac(_, _, _)
Exp2Frac(f, i, m) ==
  IF i > 14 THEN m
  ELSE IF (f \div (2^(14 - i))) % 2 = 1
       THEN Exp2Frac(f, i + 1, (m * Exp2Tab[i]) \div Two14)
       ELSE Exp2Frac(f, i + 1, m)

\* floor(m * 2^t)
Shift(m, t) ==
  IF t >= 0 THEN m * (2^t)
  ELSE IF -t > 30 THEN (IF m < 0 THEN -1 ELSE 0)
  ELSE m \div (2^(-t))

\* floor(x * 2^s) of a float of modest size.
FFix(x, s) == Shift(x.m, x.e + s)

\* 2^(X / 2^14)
FExp2Of(X) == FNorm(Exp2Frac(X % Two14, 1, Two14), (X \div Two14) - 14)

\* 2^x
FExp2(x) == Eager(x, FExp2Of(FFix(x, 14)))

\* pi, 1/2
FPi == FDec(3141593, 1000000)

FHalf == FDec(1, 2)

FOne == FInt(1)

FTen == FInt(10)

F1em5 == FDec(1, 100000)

\* math.Pow(x, p) for x >= 0 (math.Pow(0, p) is 0 for p > 0, 1 for p = 0).
FPow(x, p) ==
  Eager(x, IF x.m = 0 THEN (IF p.m = 0 THEN FOne ELSE FZero)
           ELSE FExp2(FMul(p, FLog2(x))))

\* math.Exp, math.Log10, math.Sqrt: log2(e) is 1.442695, log10(2) is 0.301030
FExp(x) == FExp2(FMul(x, FDec(1442695, 1000000)))

FLog10(x) == FMul(FLog2(x), FDec(301030, 1000000))

FSqrt(x) == IF x.m = 0 THEN FZero ELSE FExp2(FMul(FHalf, FLog2(x)))

\* 1 - x2/k * t: a step of the nested form of a Taylor polynomial.
Horner(x2, k, t) == FSub(FOne, FMul(FDiv(x2, FInt(k)), t))

\* sin x and cos x for 0 <= x < pi/2, x2 the square of x, to the term of
\* degree 11 and 10.
FSinOf(x, x2) ==
  FMul(x, Horner(x2, 6, Horner(x2, 20, Horner(x2, 42, Horner(x2, 72, Horner(x2, 110, FOne))))))

FCosOf(x2) ==
  Horner(x2, 2, Horner(x2, 12, Horner(x2, 30, Horner(x2, 56, Horner(x2, 90, FOne)))))

FTanOf(x, x2) == Eager(x2, FDiv(FSinOf(x, x2), FCosOf(x2)))

\* math.Tan
FTan(x) == Eager(x, FTanOf(x, FMul(x, x)))

\* The float of a luminance-map entry n (n multiples of 2^-12).
FLum(n) == FNorm(n, -12)

\* An array built once: TLC otherwise re-evaluates a function constructor's
\* body at every application.
Arr(f) == Eager(f, f)

(***************************************************************************)
(* perceptual.go: colours and images                                       *)
(***************************************************************************)
\* A color.Color is held by what its RGBA() returns: 16-bit channels.
Chan(v8) == v8 * 257

RGBA(r8, g8, b8, a8) == [r |-> Chan(r8), g |-> Chan(g8), b |-> Chan(b8), a |-> Chan(a8)]

\* image.Image: Bounds() is the rectangle (x0, y0)-(x0 + w, y0 + h); At
\* outside the bounds is the zero colour, as for the standard image types.
Dx(m) == m.w

Dy(m) == m.h

At(m, x, y) ==
  IF x - m.x0 \in 0..(m.w - 1) /\ y - m.y0 \in 0..(m.h - 1)
  THEN m.pix[y - m.y0][x - m.x0]
  ELSE RGBA(0, 0, 0, 0)

\* LAB colorspace
epsilon == FDec(216, 24389)

kappa == FDec(24389, 27)

\* The coefficients of xyz.
xyzM ==
  [XR |-> FDec(576700, 1000000),
   XG |-> FDec(185556, 1000000),
   XB |-> FDec(188212, 1000000),
   YR |-> FDec(297361, 1000000),
   YG |-> FDec(627355, 1000000),
   YB |-> FDec(752847, 10000000),
   ZR |-> FDec(270328, 10000000),
   ZG |-> FDec(706879, 10000000),
   ZB |-> FDec(991248, 1000000)]
F0xffff == FInt(65535)

\* x, y, z of xyz from rg, gg, bg
xyzOf(rg, gg, bg) ==
  Eager(<<rg, gg, bg>>,
  [x |-> FAdd(FAdd(FMul(rg, xyzM.XR), FMul(gg, xyzM.XG)), FMul(bg, xyzM.XB)),
   y |-> FAdd(FAdd(FMul(rg, xyzM.YR), FMul(gg, xyzM.YG)), FMul(bg, xyzM.YB)),
   z |-> FAdd(FAdd(FMul(rg, xyzM.ZR), FMul(gg, xyzM.ZG)), FMul(bg, xyzM.ZB))])

xyz(c, gamma) ==
  xyzOf(FPow(FDiv(FInt(c.r), F0xffff), gamma),
        FPow(FDiv(FInt(c.g), F0xffff), gamma),
        FPow(FDiv(FInt(c.b), F0xffff), gamma))

\* The value package init gives whiteX, whiteY, whiteZ.
whiteXYZ == xyz(RGBA(255, 255, 255, 255), FOne)

\* The numbers of lab.
labC ==
  [fThird |-> FDiv(FOne, FInt(3)),
   f16 |-> FInt(16),
   f116 |-> FInt(116),
   f200 |-> FInt(200),
   f500 |-> FInt(500)]

\* f[i] of lab from r[i]
labF(r) ==
  Eager(r, IF FGt(r, epsilon) THEN FPow(r, labC.fThird)
           ELSE FDiv(FAdd(FMul(kappa, r), labC.f16), labC.f116))

\* The labColor lab returns, from f[0], f[1], f[2].
labOf(f0, f1, f2) ==
  Eager(<<f0, f1, f2>>,
  [l |-> FSub(FMul(labC.f116, f1), labC.f16),
   a |-> FMul(labC.f500, FSub(f0, f1)),
   b |-> FMul(labC.f200, FSub(f1, f2))])

\* lab(x, y, z) with the reference white wh (the globals whiteX, whiteY, whiteZ).
lab(x, y, z, wh) ==
  labOf(labF(FDiv(x, wh.x)), labF(FDiv(y, wh.y)), labF(FDiv(z, wh.z)))

(***************************************************************************)
(* perceptual.go: pyramid                                                  *)
(***************************************************************************)
lapLevels == 8

\* lapKernel {0.05, 0.25, 0.4, 0.25, 0.05} in twentieths; index i + 3 for tap i.
lapKernel == <<1, 5, 8, 5, 1>>

\* The neighbour index of the pyramid's inner loops, second if: v >= n.
ReflectHigh(v, n) == IF v >= n THEN 2 * n - v - 1 ELSE v

\* The neighbour index of the pyramid's inner loops: both ifs, in order.
Reflect(v, n) == ReflectHigh(Abs(v), n)

Len0(f) == Cardinality(DOMAIN f)

\* p[l-1][ny][nx] is an index out of range for some tap of some pixel.
PyramidFaults(w, h) ==
  \E y \in 0..(h - 1), x \in 0..(w - 1), i \in -2..2, j \in -2..2 :
     \/ Reflect(y + j, h) \notin 0..(h - 1)
     \/ Reflect(x + i, w) \notin 0..(w - 1)

KRow(row, w, x) ==
    lapKernel[1] * row[Reflect(x - 2, w)]
  + lapKernel[2] * row[Reflect(x - 1, w)]
  + lapKernel[3] * row[Reflect(x, w)]
  + lapKernel[4] * row[Reflect(x + 1, w)]
  + lapKernel[5] * row[Reflect(x + 2, w)]

\* p[l][y][x]: the 25 products lapKernel[i+2]*lapKernel[j+2]*p[l-1][ny][nx], summed.
ConvAt(prev, w, h, x, y) ==
  ( lapKernel[1] * KRow(prev[Reflect(y - 2, h)], w, x)
  + lapKernel[2] * KRow(prev[Reflect(y - 1, h)], w, x)
  + lapKernel[3] * KRow(prev[Reflect(y, h)], w, x)
  + lapKernel[4] * KRow(prev[Reflect(y + 1, h)], w, x)
  + lapKernel[5] * KRow(prev[Reflect(y + 2, h)], w, x) ) \div 400

Conv(prev, w, h) ==
  Arr([y \in 0..(h - 1) |-> [x \in 0..(w - 1) |-> ConvAt(prev, w, h, x, y)]])

RECURSIVE PyrLevels(_, _, _)
PyrLevels(p, w, h) ==
  IF Len(p) = lapLevels THEN p
  ELSE PyrLevels(Append(p, Conv(p[Len(p)], w, h)), w, h)

\* The levels as Go indexes them, from 0.
PyrOf(p) == Arr([l \in 0..(lapLevels - 1) |-> p[l + 1]])

\* pyramid(m) for a map that does not fault: [level][y][x], level 0 a copy of m.
pyramid(m) == PyrOf(PyrLevels(<<m>>, Len0(m[0]), Len0(m)))

\* labLap(m, gamma, lum) panics: pyramid reads m[0] of no rows, or an index
\* out of range.
labLapPanics(m) == Dy(m) = 0 \/ PyramidFaults(Dx(m), Dy(m))

\* cx, cy, cz of every pixel
xyzMap(m, gamma) ==
  Arr([y \in 0..(Dy(m) - 1) |-> [x \in 0..(Dx(m) - 1) |-> xyz(At(m, x, y), gamma)]])

\* aLAB[y][x] = lab(cx, cy, cz)
labMap(c, wh) ==
  Arr([y \in DOMAIN c |-> [x \in DOMAIN c[y] |-> lab(c[y][x].x, c[y][x].y, c[y][x].z, wh)]])

\* aLum[y][x] = cy * lum
lumMap(c, lum) ==
  Arr([y \in DOMAIN c |-> [x \in DOMAIN c[y] |-> FFix(FMul(c[y][x].y, lum), 12)]])

labLapOf(c, lum, wh) == Eager(c, [lab |-> labMap(c, wh), lap |-> pyramid(lumMap(c, lum))])

labLap(m, gamma, lum, wh) == labLapOf(xyzMap(m, gamma), lum, wh)

(***************************************************************************)
(* perceptual.go: csf, vmask, tvi                                          *)
(***************************************************************************)
\* The numbers of csf.
csfC ==
  [f440 |-> FInt(440),
   f0p7 |-> FDec(7, 10),
   fm0p2 |-> FDec(-2, 10),
   f0p3 |-> FDec(3, 10),
   f0p15 |-> FDec(15, 100),
   f0p06 |-> FDec(6, 100)]
F100 == FInt(100)

\* a * cpd * math.Exp(-b*cpd) * math.Sqrt(1.0+0.06*math.Exp(b*cpd)), bc = b*cpd
csfOf(a, bc, cpd) ==
  Eager(<<a, bc>>, FMul(FMul(FMul(a, cpd), FExp(FNeg(bc))), FSqrt(FAdd(FOne, FMul(csfC.f0p06, FExp(bc))))))

csf(cpd, lum) ==
  csfOf(FMul(csfC.f440, FPow(FAdd(FOne, FDiv(csfC.f0p7, lum)), csfC.fm0p2)),
        FMul(FMul(csfC.f0p3, FPow(FAdd(FOne, FDiv(F100, lum)), csfC.f0p15)), cpd),
        cpd)

\* The numbers of vmask.
vmaskC ==
  [f392p498 |-> FDec(392498, 1000),
   f0p0153 |-> FDec(153, 10000),
   f4 |-> FInt(4),
   f0p25 |-> FDec(25, 100)]

vmask(c) ==
  FPow(FAdd(FOne, FPow(FMul(vmaskC.f0p0153, FPow(FMul(vmaskC.f392p498, c), FDec(7, 10))), vmaskC.f4)), vmaskC.f0p25)

\* The numbers of tvi.
tviC ==
  [fm3p94 |-> FDec(-394, 100),
   fm1p44 |-> FDec(-144, 100),
   fm0p0184 |-> FDec(-184, 10000),
   f1p9 |-> FDec(19, 10),
   f2p86 |-> FDec(286, 100),
   f0p405 |-> FDec(405, 1000),
   f1p6 |-> FDec(16, 10),
   f2p18 |-> FDec(218, 100),
   f0p395 |-> FDec(395, 1000),
   f0p249 |-> FDec(249, 1000),
   f0p65 |-> FDec(65, 100),
   f2p7 |-> FDec(27, 10),
   f0p72 |-> FDec(72, 100),
   f1p255 |-> FDec(1255, 1000)]

\* r of tvi, from al = math.Log10(al)
tviExp(al) ==
  Eager(al,
  IF FLt(al, tviC.fm3p94) THEN FNeg(tviC.f2p86)
  ELSE IF FLt(al, tviC.fm1p44)
       THEN FSub(FPow(FAdd(FMul(tviC.f0p405, al), tviC.f1p6), tviC.f2p18), tviC.f2p86)
  ELSE IF FLt(al, tviC.fm0p0184) THEN FSub(al, tviC.f0p395)
  ELSE IF FLt(al, tviC.f1p9)
       THEN FSub(FPow(FAdd(FMul(tviC.f0p249, al), tviC.f0p65), tviC.f2p7), tviC.f0p72)
  ELSE FSub(al, tviC.f1p255))

tvi(adapt) == FPow(FTen, tviExp(FLog10(adapt)))

(***************************************************************************)
(* perceptual.go: NewPerceptual and the body of Compare                    *)
(***************************************************************************)
\* odp: 2 * math.Tan(fov*0.5*math.Pi/180) * 180 / math.Pi
Odp(fov) ==
  FDiv(FMul(FMul(FInt(2), FTan(FDiv(FMul(FMul(fov, FHalf), FPi), FInt(180)))), FInt(180)), FPi)

RECURSIVE AiLoopUncapped(_, _, _)
AiLoopUncapped(n, odp, ai) ==
  IF FGt(n, odp) THEN ai ELSE AiLoopUncapped(FMul(n, FInt(2)), odp, ai + 1)

\* The loop of NewPerceptual: for n := 1.0; !(n > odp); n *= 2 { ai++; ... }
RECURSIVE AiLoop(_, _, _)
AiLoop(n, odp, ai) ==
  IF FGt(n, odp) THEN ai
  ELSE IF ai + 1 = lapLevels - 1 THEN ai + 1
  ELSE AiLoop(FMul(n, FInt(2)), odp, ai + 1)

NewPerceptualOf(gamma, luminance, fov, cf, nocolor, odp) ==
  Eager(odp,
  [gamma |-> gamma, lum |-> luminance, fov |-> fov, cf |-> cf,
   nocolor |-> nocolor, odp |-> odp, ai |-> AiLoop(FOne, odp, 0)])

NewPerceptual(gamma, luminance, fov, cf, nocolor) ==
  NewPerceptualOf(gamma, luminance, fov, cf, nocolor, Odp(fov))

\* cpd[0] = 0.5 * w / odp; cpd[i] = 0.5 * cpd[i-1]
RECURSIVE CpdAt(_, _, _)
CpdAt(w, odp, i) ==
  IF i = 0 THEN FDiv(FMul(FHalf, FInt(w)), odp)
  ELSE FMul(FHalf, CpdAt(w, odp, i - 1))

Cpd(w, odp) == Arr([i \in 0..(lapLevels - 1) |-> CpdAt(w, odp, i)])

csfMax == csf(FDec(3248, 1000), F100)

Freq(cpd) == Arr([i \in 0..(lapLevels - 3) |-> FDiv(csfMax, csf(cpd[i], F100))])

\* f[0] + ... + f[n], added in that order
RECURSIVE FSumTo(_, _)
FSumTo(f, n) == IF n < 0 THEN FZero ELSE FAdd(FSumTo(f, n - 1), f[n])

\* aLap[l][y][x] for every level l
Taps(lap, x, y) == Arr([l \in 0..(lapLevels - 1) |-> lap[l][y][x]])

\* adapt := math.Max(0.5*(aLap[d.ai][y][x]+bLap[d.ai][y][x]), 1e-5)
Adapt(A, B, ai) == FMax(FMul(FHalf, FLum(A[ai] + B[ai])), F1em5)

\* contrast[i] = math.Max(n1, n2) / math.Max(d, 1e-5)
Contrast(A, B) ==
  Arr([i \in 0..(lapLevels - 3) |->
         FDiv(FLum(Max(Abs(A[i] - A[i + 1]), Abs(B[i] - B[i + 1]))),
              FMax(FLum(Max(Abs(A[i + 2]), Abs(B[i + 2]))), F1em5))])

\* mask[i] = vmask(contrast[i] * csf(cpd[i], adapt))
Mask(contrast, cpd, adapt) ==
  Arr([i \in 0..(lapLevels - 3) |-> vmask(FMul(contrast[i], csf(cpd[i], adapt)))])

\* if contrastSum < 1e-5 { contrastSum = 1e-5 }
AtLeast(v, lo) == Eager(v, IF FLt(v, lo) THEN lo ELSE v)

\* if factor < 1 { factor = 1 } else if factor > 10 { factor = 10 }
Clamp(v, lo, hi) == Eager(v, IF FLt(v, lo) THEN lo ELSE IF FGt(v, hi) THEN hi ELSE v)

\* contrast[i] * freq[i] * mask[i] / contrastSum
Terms(contrast, freq, mask, contrastSum) ==
  Arr([i \in 0..(lapLevels - 3) |->
         FDiv(FMul(FMul(contrast[i], freq[i]), mask[i]), contrastSum)])

Factor(contrast, freq, mask) ==
  Eager(mask, Clamp(FSumTo(Terms(contrast, freq, mask,
                     AtLeast(FSumTo(contrast, lapLevels - 3), F1em5)),
               lapLevels - 3),
        FOne, FTen))

\* A luminance difference that keeps its sign.
LumDeltaSigned(al0, bl0) == al0 - bl0

\* delta := math.Abs(aLap[0][y][x] - bLap[0][y][x]), in units of 2^-12
LumDelta(al0, bl0) == Abs(al0 - bl0)

\* !(delta > factor*tvi(adapt))
LumPass(delta, factor, adapt) == ~FGt(delta, FMul(factor, tvi(adapt)))

\* cf := d.cf; if adapt < 10.0 { cf = 0.0 }
ColorFactor(cf, adapt) == IF FLt(adapt, FTen) THEN FZero ELSE cf

\* !((da*da+db*db)*cf > factor)
ColorPassOf(da, db, cf, factor) ==
  ~FGt(FMul(FAdd(FMul(da, da), FMul(db, db)), cf), factor)

ColorPass(la, lb, cf, adapt, factor) ==
  ColorPassOf(FSub(la.a, lb.a), FSub(la.b, lb.b), ColorFactor(cf, adapt), factor)

\* The colour test run when the flag is set instead of when it is clear.
ColorTestedInverted(lumPass, nocolor) == lumPass /\ nocolor

\* if delta > factor*tvi(adapt) {...} else if !d.nocolor {...}: the colour
\* test runs on the pixels that passed the luminance test, unless nocolor.
ColorTested(lumPass, nocolor) == lumPass /\ ~nocolor

\* pass, from the outcome of the two tests
Verdict(lumPass, nocolor, colorPass) ==
  Eager(lumPass, IF ColorTested(lumPass, nocolor) THEN colorPass ELSE lumPass)

PixelOfFactor(dd, la, lb, A, B, adapt, factor) ==
  Eager(factor, Verdict(LumPass(FLum(LumDelta(A[0], B[0])), factor, adapt),
          dd.nocolor,
          ColorPass(la, lb, dd.cf, adapt, factor)))

PixelOfContrast(dd, cpd, freq, la, lb, A, B, adapt, contrast) ==
  Eager(<<adapt, contrast>>,
        PixelOfFactor(dd, la, lb, A, B, adapt,
                      Factor(contrast, freq, Mask(contrast, cpd, adapt))))

PixelOfTaps(dd, cpd, freq, la, lb, A, B) ==
  Eager(<<A, B>>,
        PixelOfContrast(dd, cpd, freq, la, lb, A, B, Adapt(A, B, dd.ai), Contrast(A, B)))

\* One turn of the pixel loop of Compare: TRUE when pixel (x, y) passes.
PixelPass(dd, cpd, freq, aLAB, bLAB, aLap, bLap, x, y) ==
  PixelOfTaps(dd, cpd, freq, aLAB[y][x], bLAB[y][x], Taps(aLap, x, y), Taps(bLap, x, y))

(***************************************************************************)
(* Inputs of the model                                                     *)
(***************************************************************************)
MaxW == 2
MaxH == 2
\* At most MaxDots pixels of an input image differ from its background.
MaxDots == 1

Red == RGBA(255, 0, 0, 255)
Green == RGBA(0, 128, 0, 255)

\* A uniform change between the two colours fails the luminance test, a
\* single changed pixel only the colour test.
Palette == {Red, Green}

\* The pixels an input image may have changed: those of the diagonal.
Pixels(w, h) == { <<i, i>> : i \in 0..((IF w < h THEN w ELSE h) - 1) }

\* The w x h images of a background colour with the pixels of dots in fg.
DotImage(w, h, bg, fg, dots) ==
  [x0 |-> 0, y0 |-> 0, w |-> w, h |-> h,
   pix |-> [y \in 0..(h - 1) |-> [x \in 0..(w - 1) |->
              IF <<x, y>> \in dots THEN fg ELSE bg]]]

Images(W, H, dots, pal) ==
  { DotImage(w, h, bg, fg, ds) :
      w \in 1..W, h \in 1..H, bg \in pal, fg \in pal,
      ds \in { S \in SUBSET Pixels(W, H) : Cardinality(S) <= dots } }

\* The arguments of NewPerceptual: the defaults of the command line, with
\* and without the colour test.
Configs ==
  { [gamma |-> FDec(22, 10), lum |-> F100, fov |-> FInt(45), cf |-> FOne, nocolor |-> nc] :
      nc \in BOOLEAN }

(***************************************************************************)
(* State                                                                   *)
(***************************************************************************)
VARIABLES
  white,      \* whiteX, whiteY, whiteZ
  cfg, a, b,  \* the caller's arguments: of NewPerceptual, and the two images
  d,          \* the *perceptual differ
  pc,         \* where the goroutine that called Compare is
  diff,       \* diff: <<>> (nil) or <<the NRGBA image>>
  wg,         \* the WaitGroup's counter
  ta, tb,     \* where the two goroutines of Compare are
  aLAB, bLAB, aLap, bLap,   \* <<>> is the nil slice
  cpd, freq,
  npix, x, y, \* the pixel loop
  ret,        \* what Compare returned
  argv,       \* the command line of imgdiff
  threshold,  \* the thresholdVar of cmd/imgdiff
  exit,       \* the exit code of the process, once it has exited
  out,        \* what run has printed and written
  other       \* what a second Compare on the same differ returned

vars == <<white, cfg, a, b, d, pc, diff, wg, ta, tb, aLAB, bLAB, aLap, bLap,
          cpd, freq, npix, x, y, ret, argv, threshold, exit, out, other>>

\* The state of the command line tool.
cli == <<argv, threshold, exit, out>>

NoDiffer == [gamma |-> FZero, lum |-> FZero, fov |-> FZero, cf |-> FZero,
             nocolor |-> FALSE, odp |-> FZero, ai |-> 0]

NoRet == [img |-> <<>>, n |-> 0, err |-> "pending"]

\* A library call has no command line.
NoArgv == [t |-> <<>>, a |-> "", o |-> "", pos |-> <<>>]

\* threshold = thresholdVar{value: 100}; a value is the fraction num / den.
thresholdDefault == [value |-> [num |-> 100, den |-> 1], percent |-> FALSE]

\* The exit code of a process that has not exited.
Running == -1

NoOut == [printed |-> FALSE, written |-> FALSE]

ErrSize == "images have different sizes"

\* color.NRGBA{0, 0, 0, 0xff}
PassColor == [R |-> 0, G |-> 0, B |-> 0, A |-> 255]

\* image.NewNRGBA(image.Rect(0, 0, w, h)): every pixel the zero NRGBA.
NewNRGBA(w, h) ==
  [w |-> w, h |-> h,
   pix |-> [yy \in 0..(h - 1) |-> [xx \in 0..(w - 1) |->
              [R |-> 0, G |-> 0, B |-> 0, A |-> 0]]]]

Init ==
  /\ white = [x |-> FZero, y |-> FZero, z |-> FZero]
  /\ cfg \in Configs
  /\ a \in Images(MaxW, MaxH, MaxDots, Palette)
  /\ b \in Images(MaxW, MaxH, MaxDots, Palette)
  /\ d = NoDiffer
  /\ pc = "init"
  /\ diff = <<>>
  /\ wg = 0
  /\ ta = "none" /\ tb = "none"
  /\ aLAB = <<>> /\ bLAB = <<>> /\ aLap = <<>> /\ bLap = <<>>
  /\ cpd = <<>> /\ freq = <<>>
  /\ npix = 0 /\ x = 0 /\ y = 0
  /\ ret = NoRet
  /\ argv = NoArgv /\ threshold = thresholdDefault /\ exit = Running /\ out = NoOut
  /\ other = NoRet

(***************************************************************************)
(* Actions                                                                 *)
(***************************************************************************)
\* func init(): whiteX, whiteY, whiteZ = xyz(color.RGBA{0xff, 0xff, 0xff, 0xff}, 1)
PkgInit ==
  /\ pc = "init"
  /\ white' = whiteXYZ
  /\ pc' = "new"
  /\ UNCHANGED <<cli, other>>
  /\ UNCHANGED <<cfg, a, b, d, diff, wg, ta, tb, aLAB, bLAB, aLap, bLap,
                 cpd, freq, npix, x, y, ret>>

\* d := NewPerceptual(gamma, luminance, fov, cf, nocolor)
New ==
  /\ pc = "new"
  /\ d' = NewPerceptual(cfg.gamma, cfg.lum, cfg.fov, cfg.cf, cfg.nocolor)
  /\ pc' = "check"
  /\ UNCHANGED <<cli, other>>
  /\ UNCHANGED <<white, cfg, a, b, diff, wg, ta, tb, aLAB, bLAB, aLap, bLap,
                 cpd, freq, npix, x, y, ret>>

SizesDifferInWidth(m1, m2) == Dx(m1) # Dx(m2)

\* The size test of Compare.
SizesDiffer(m1, m2) == Dx(m1) # Dx(m2) \/ Dy(m1) # Dy(m2)

\* Compare: ab, bb := a.Bounds(), b.Bounds(); the size check.
Check ==
  /\ pc = "check"
  /\ IF SizesDiffer(a, b)
     THEN /\ ret' = [img |-> <<>>, n |-> -1, err |-> ErrSize]
          /\ pc' = "done"
     ELSE /\ pc' = "alloc"
          /\ ret' = ret
  /\ UNCHANGED <<cli, other>>
  /\ UNCHANGED <<white, cfg, a, b, d, diff, wg, ta, tb, aLAB, bLAB, aLap, bLap,
                 cpd, freq, npix, x, y>>

\* diff := image.NewNRGBA(image.Rect(0, 0, w, h))
Alloc ==
  /\ pc = "alloc"
  /\ diff' = <<NewNRGBA(Dx(a), Dy(a))>>
  /\ pc' = "fork"
  /\ UNCHANGED <<cli, other>>
  /\ UNCHANGED <<white, cfg, a, b, d, wg, ta, tb, aLAB, bLAB, aLap, bLap,
                 cpd, freq, npix, x, y, ret>>

\* wg.Add(2); go func() {...}(); go func() {...}()
Fork ==
  /\ pc = "fork"
  /\ wg' = wg + 2
  /\ ta' = "run" /\ tb' = "run"
  /\ pc' = "cpd"
  /\ UNCHANGED <<cli, other>>
  /\ UNCHANGED <<white, cfg, a, b, d, diff, aLAB, bLAB, aLap, bLap,
                 cpd, freq, npix, x, y, ret>>

\* The first goroutine: aLAB, aLap = labLap(a, d.gamma, d.lum). A panic in
\* it ends the process.
TaskARun ==
  /\ ta = "run" /\ pc # "panic"
  /\ IF labLapPanics(a)
     THEN /\ pc' = "panic"
          /\ UNCHANGED <<ta, aLAB, aLap>>
     ELSE /\ LET r == labLap(a, d.gamma, d.lum, white)
             IN  aLAB' = r.lab /\ aLap' = r.lap
          /\ ta' = "done"
          /\ pc' = pc
  /\ UNCHANGED <<cli, other>>
  /\ UNCHANGED <<white, cfg, a, b, d, diff, wg, tb, bLAB, bLap,
                 cpd, freq, npix, x, y, ret>>

\* The first goroutine: wg.Done()
TaskADone ==
  /\ ta = "done" /\ pc # "panic"
  /\ wg' = wg - 1
  /\ ta' = "exit"
  /\ UNCHANGED <<cli, other>>
  /\ UNCHANGED <<white, cfg, a, b, d, pc, diff, tb, aLAB, bLAB, aLap, bLap,
                 cpd, freq, npix, x, y, ret>>

\* The second goroutine: bLAB, bLap = labLap(b, d.gamma, d.lum)
TaskBRun ==
  /\ tb = "run" /\ pc # "panic"
  /\ IF labLapPanics(b)
     THEN /\ pc' = "panic"
          /\ UNCHANGED <<tb, bLAB, bLap>>
     ELSE /\ LET r == labLap(b, d.gamma, d.lum, white)
             IN  bLAB' = r.lab /\ bLap' = r.lap
          /\ tb' = "done"
          /\ pc' = pc
  /\ UNCHANGED <<cli, other>>
  /\ UNCHANGED <<white, cfg, a, b, d, diff, wg, ta, aLAB, aLap,
                 cpd, freq, npix, x, y, ret>>

\* The second goroutine: wg.Done()
TaskBDone ==
  /\ tb = "done" /\ pc # "panic"
  /\ wg' = wg - 1
  /\ tb' = "exit"
  /\ UNCHANGED <<cli, other>>
  /\ UNCHANGED <<white, cfg, a, b, d, pc, diff, ta, aLAB, bLAB, aLap, bLap,
                 cpd, freq, npix, x, y, ret>>

\* cpd, csfMax and freq, computed while the goroutines run.
CpdFreq ==
  /\ pc = "cpd"
  /\ LET c == Cpd(Dx(a), d.odp)
     IN  cpd' = c /\ freq' = Freq(c)
  /\ pc' = "wait"
  /\ UNCHANGED <<cli, other>>
  /\ UNCHANGED <<white, cfg, a, b, d, diff, wg, ta, tb, aLAB, bLAB, aLap, bLap,
                 npix, x, y, ret>>

WaitReturnsAtOnce == TRUE

\* wg.Wait() returns when the counter is zero.
WaitReturns == wg = 0

Wait ==
  /\ pc = "wait"
  /\ WaitReturns
  /\ pc' = "loop"
  /\ npix' = 0 /\ x' = 0 /\ y' = 0
  /\ UNCHANGED <<cli, other>>
  /\ UNCHANGED <<white, cfg, a, b, d, diff, wg, ta, tb, aLAB, bLAB, aLap, bLap,
                 cpd, freq, ret>>

\* A counter that counts every pixel.
\* if !pass { npix++ ... }
Count(n, pass) == IF pass THEN n ELSE n + 1

\* The fail colour of the variant that renders the channel differences.
FailColorOfChannels == [R |-> 255, G |-> 128, B |-> 0, A |-> 255]

\* c := color.NRGBA{0, 0, 0, 0xff}; if !pass { c.R = 0xff }
FailColor == [R |-> 255, G |-> 0, B |-> 0, A |-> 255]

PixelColor(pass) == IF pass THEN PassColor ELSE FailColor

\* diff.Set(x, y, c)
SetPix(m, px, py, c) == [m EXCEPT !.pix[py][px] = c]

\* One turn of the inner loop: pixel (x, y). Indexing a nil pyramid or LAB
\* buffer panics.
Pixel ==
  /\ pc = "loop"
  /\ y < Dy(a) /\ x < Dx(a)
  /\ IF Len0(aLap) <= d.ai \/ Len0(bLap) <= d.ai \/ Len0(aLAB) <= y \/ Len0(bLAB) <= y
     THEN /\ pc' = "panic"
          /\ UNCHANGED <<diff, npix, x, y>>
     ELSE /\ LET pass == PixelPass(d, cpd, freq, aLAB, bLAB, aLap, bLap, x, y)
             IN  /\ npix' = Count(npix, pass)
                 /\ diff' = <<SetPix(diff[1], x, y, PixelColor(pass))>>
          /\ IF x + 1 < Dx(a)
             THEN x' = x + 1 /\ y' = y
             ELSE x' = 0 /\ y' = y + 1
          /\ pc' = pc
  /\ UNCHANGED <<cli, other>>
  /\ UNCHANGED <<white, cfg, a, b, d, wg, ta, tb, aLAB, bLAB, aLap, bLap,
                 cpd, freq, ret>>

\* return diff, npix, nil
Return ==
  /\ pc = "loop"
  /\ ~(y < Dy(a) /\ x < Dx(a))
  /\ ret' = [img |-> diff, n |-> npix, err |-> "nil"]
  /\ pc' = "done"
  /\ UNCHANGED <<cli, other>>
  /\ UNCHANGED <<white, cfg, a, b, d, diff, wg, ta, tb, aLAB, bLAB, aLap, bLap,
                 cpd, freq, npix, x, y>>

Next ==
  \/ PkgInit \/ New \/ Check \/ Alloc \/ Fork
  \/ TaskARun \/ TaskADone \/ TaskBRun \/ TaskBDone
  \/ CpdFreq \/ Wait \/ Pixel \/ Return

Spec == Init /\ [][Next]_vars

(***************************************************************************)
(* Compare as one function of its arguments: what the steps above return.  *)
(* The command line tool below calls it in one step.                       *)
(***************************************************************************)
\* pass of every turn of the pixel loop
PassesOfFreq(dd, la, lb, c, f, w, h) ==
  Eager(f, Arr([py \in 0..(h - 1) |-> [px \in 0..(w - 1) |->
                  PixelPass(dd, c, f, la.lab, lb.lab, la.lap, lb.lap, px, py)]]))

PassesOf(dd, la, lb, c, w, h) ==
  Eager(<<la, lb, c>>, PassesOfFreq(dd, la, lb, c, Freq(c), w, h))

Passes(dd, wh, m1, m2) ==
  PassesOf(dd, labLap(m1, dd.gamma, dd.lum, wh), labLap(m2, dd.gamma, dd.lum, wh),
           Cpd(Dx(m1), dd.odp), Dx(m1), Dy(m1))

\* diff and npix once the loop has ended
CompareOf(pass, w, h) ==
  Eager(pass,
  [img |-> <<[w |-> w, h |-> h,
              pix |-> [py \in 0..(h - 1) |-> [px \in 0..(w - 1) |-> PixelColor(pass[py][px])]]]>>,
   n   |-> Cardinality({ q \in (0..(w - 1)) \X (0..(h - 1)) : Count(0, pass[q[2]][q[1]]) = 1 }),
   err |-> "nil"])

\* What a goroutine's panic leaves of the call: it never returns.
Panicked == [img |-> <<>>, n |-> 0, err |-> "panic"]

\* (d *perceptual).Compare(m1, m2) with the reference white wh
Compare(dd, wh, m1, m2) ==
  IF SizesDiffer(m1, m2) THEN [img |-> <<>>, n |-> -1, err |-> ErrSize]
  ELSE IF labLapPanics(m1) \/ labLapPanics(m2) THEN Panicked
  ELSE CompareOf(Passes(dd, wh, m1, m2), Dx(m1), Dy(m1))

\* The steps return what the function gives.
StepsAgree ==
  /\ pc = "done" => ret = Compare(d, white, a, b)
  /\ pc = "panic" => Compare(d, white, a, b) = Panicked

(***************************************************************************)
(* NewPerceptual alone, over fields of view from a negative one to nearly  *)
(* a half turn.                                                            *)
(***************************************************************************)
\* The arguments of NewPerceptual, the field of view in degrees.
NewArgs ==
  { [gamma |-> g, lum |-> F100, fov |-> f, cf |-> c, nocolor |-> nc] :
      g \in {FOne, FDec(22, 10)},
      f \in { FInt(-45), FZero, FHalf, FDec(3, 2), FInt(3), FInt(6), FInt(12),
              FInt(24), FInt(45), FInt(80), FInt(120), FInt(170) },
      c \in {FZero, FOne}, nc \in BOOLEAN }

InitNew ==
  /\ white = [x |-> FZero, y |-> FZero, z |-> FZero]
  /\ cfg \in NewArgs
  /\ a = DotImage(MaxW, MaxH, Red, Red, {})
  /\ b = DotImage(MaxW, MaxH, Red, Red, {})
  /\ d = NoDiffer
  /\ pc = "init"
  /\ diff = <<>>
  /\ wg = 0
  /\ ta = "none" /\ tb = "none"
  /\ aLAB = <<>> /\ bLAB = <<>> /\ aLap = <<>> /\ bLap = <<>>
  /\ cpd = <<>> /\ freq = <<>>
  /\ npix = 0 /\ x = 0 /\ y = 0
  /\ ret = NoRet
  /\ argv = NoArgv /\ threshold = thresholdDefault /\ exit = Running /\ out = NoOut
  /\ other = NoRet

NextNew == PkgInit \/ New

SpecNew == InitNew /\ [][NextNew]_vars

(***************************************************************************)
(* Two Compare calls on one differ: the first in its steps, the second,    *)
(* on the swapped images, returning at any moment of the first.  The first *)
(* image may be a sub-image, with bounds that do not start at (0, 0).      *)
(***************************************************************************)
InitCalls ==
  /\ white = [x |-> FZero, y |-> FZero, z |-> FZero]
  /\ cfg \in Configs
  /\ a \in { [DotImage(MaxW, MaxH, Red, Red, {}) EXCEPT !.x0 = o, !.y0 = o] : o \in 0..1 }
  /\ b \in { DotImage(MaxW, MaxH, Red, fg, {<<0, 0>>}) : fg \in Palette }
  /\ d = NoDiffer
  /\ pc = "init"
  /\ diff = <<>>
  /\ wg = 0
  /\ ta = "none" /\ tb = "none"
  /\ aLAB = <<>> /\ bLAB = <<>> /\ aLap = <<>> /\ bLap = <<>>
  /\ cpd = <<>> /\ freq = <<>>
  /\ npix = 0 /\ x = 0 /\ y = 0
  /\ ret = NoRet
  /\ argv = NoArgv /\ threshold = thresholdDefault /\ exit = Running /\ out = NoOut
  /\ other = NoRet

OtherRecounting ==
  /\ pc \notin {"init", "new"}
  /\ other = NoRet
  /\ other' = Compare(d, white, b, a)
  /\ d' = [d EXCEPT !.ai = AiLoop(FOne, d.odp, d.ai)]
  /\ UNCHANGED cli
  /\ UNCHANGED <<white, cfg, a, b, pc, diff, wg, ta, tb, aLAB, bLAB, aLap, bLap,
                 cpd, freq, npix, x, y, ret>>

\* d.Compare(b, a) of another goroutine, from its call to its return
Other ==
  /\ pc \notin {"init", "new"}
  /\ other = NoRet
  /\ other' = Compare(d, white, b, a)
  /\ UNCHANGED cli
  /\ UNCHANGED <<white, cfg, a, b, d, pc, diff, wg, ta, tb, aLAB, bLAB, aLap, bLap,
                 cpd, freq, npix, x, y, ret>>

NextCalls == Next \/ Other

SpecCalls == InitCalls /\ [][NextCalls]_vars

(***************************************************************************)
(* cmd/imgdiff: the command line tool                                      *)
(***************************************************************************)
\* The decimal digits a threshold is written with.
DigitVal == [c \in {"0", "1", "2", "3", "4", "5", "6", "7", "8", "9"} |->
               CASE c = "0" -> 0 [] c = "1" -> 1 [] c = "2" -> 2 [] c = "3" -> 3
                 [] c = "4" -> 4 [] c = "5" -> 5 [] c = "6" -> 6 [] c = "7" -> 7
                 [] c = "8" -> 8 [] c = "9" -> 9]

IsDigit(c) == c \in DOMAIN DigitVal

\* The number a sequence of digits writes.
RECURSIVE DigitsVal(_)
DigitsVal(s) ==
  IF s = <<>> THEN 0
  ELSE 10 * DigitsVal(SubSeq(s, 1, Len(s) - 1)) + DigitVal[s[Len(s)]]

\* A text without its sign.
Unsigned(t) == IF t # <<>> /\ t[1] \in {"+", "-"} THEN Tail(t) ELSE t

\* The places of the decimal point in a text.
Dots(s) == { i \in 1..Len(s) : s[i] = "." }

\* strconv.ParseFloat(t, 64) of a text of signs, digits, points and other
\* characters: the value is the fraction num / den, which float64 holds
\* exactly for the texts of Thresholds.
ParseFloatOf(t, s) ==
  IF \/ Cardinality(Dots(s)) > 1
     \/ \A i \in 1..Len(s) : ~IsDigit(s[i])
     \/ \E i \in 1..Len(s) : ~IsDigit(s[i]) /\ s[i] # "."
  THEN [err |-> TRUE, num |-> 0, den |-> 1]
  ELSE [err |-> FALSE,
        num |-> (IF t[1] = "-" THEN -1 ELSE 1) * DigitsVal(SelectSeq(s, IsDigit)),
        den |-> IF Dots(s) = {} THEN 1 ELSE 10 ^ (Len(s) - (CHOOSE i \in Dots(s) : TRUE))]

ParseFloat(t) == ParseFloatOf(t, Unsigned(t))

\* (v *thresholdVar).Set(t): the new v, or the error of ParseFloat.
SetOf(v, percent, val) ==
  IF val.err THEN [err |-> TRUE, v |-> v]
  ELSE [err |-> FALSE,
        v |-> [value |-> [num |-> val.num, den |-> val.den], percent |-> percent]]

Set(v, t) ==
  IF Len(t) = 0 THEN [err |-> FALSE, v |-> [v EXCEPT !.value = [num |-> 0, den |-> 1]]]
  ELSE IF t[Len(t)] = "%" THEN SetOf(v, TRUE, ParseFloat(SubSeq(t, 1, Len(t) - 1)))
  ELSE SetOf(v, FALSE, ParseFloat(t))

\* flag.Parse() over the -t options of the command line, in their order.
RECURSIVE ParseT(_, _)
ParseT(v, ts) ==
  IF ts = <<>> THEN [err |-> FALSE, v |-> v]
  ELSE IF Set(v, Head(ts)).err THEN [err |-> TRUE, v |-> v]
  ELSE ParseT(Set(v, Head(ts)).v, Tail(ts))

\* imgdiff.NewBinary().Compare(m1, m2): the pixels compared as they are.
BinaryCompare(m1, m2) ==
  IF SizesDiffer(m1, m2) THEN [img |-> <<>>, n |-> -1, err |-> ErrSize]
  ELSE [img |-> <<[w |-> Dx(m1), h |-> Dy(m1),
                   pix |-> [py \in 0..(Dy(m1) - 1) |-> [px \in 0..(Dx(m1) - 1) |->
                              PixelColor(At(m1, px, py) = At(m2, px, py))]]]>>,
        n   |-> Cardinality({ q \in (0..(Dx(m1) - 1)) \X (0..(Dy(m1) - 1)) :
                                At(m1, q[1], q[2]) # At(m2, q[1], q[2]) }),
        err |-> "nil"]

\* flag.String("a", "perceptual", ...)
algorithmDefault == "perceptual"

\* The texts given to -t.
Thresholds ==
  { <<"0">>, <<"1">>, <<"3">>, <<"5", "0", "%">>, <<"2", "5", "%">>,
    <<"0", ".", "5", "%">>, <<"-", "1">>, <<>>, <<"%">>, <<"x">> }

\* The number of -t options on a command line.
MaxT == 1

\* The files named on the command line; missing.png cannot be opened.
Positional ==
  { <<"version">>, <<"a.png">>, <<"a.png", "b.png">>, <<"a.png", "missing.png">> }

Argvs ==
  { [t |-> ts, a |-> al, o |-> o, pos |-> ps] :
      ts \in UNION { [1..k -> Thresholds] : k \in 0..MaxT },
      al \in {algorithmDefault, "binary", "bitmap"},
      o \in {"", "diff.png"},
      ps \in Positional }

\* The state at the start of main: the package's init functions have run.
InitCli ==
  /\ white = whiteXYZ
  /\ cfg \in Configs
  /\ a \in Images(MaxW, MaxH, 0, {Red})
  /\ b \in Images(MaxW, MaxH, MaxDots, Palette)
  /\ d = NoDiffer
  /\ pc = "cli.parse"
  /\ diff = <<>>
  /\ wg = 0
  /\ ta = "none" /\ tb = "none"
  /\ aLAB = <<>> /\ bLAB = <<>> /\ aLap = <<>> /\ bLap = <<>>
  /\ cpd = <<>> /\ freq = <<>>
  /\ npix = 0 /\ x = 0 /\ y = 0
  /\ ret = NoRet
  /\ argv \in Argvs /\ threshold = thresholdDefault /\ exit = Running /\ out = NoOut
  /\ other = NoRet

\* What Compare's callers in the library leave alone.
lib == <<white, cfg, a, b, diff, wg, ta, tb, aLAB, bLAB, aLap, bLap, cpd, freq, npix, x, y>>

\* os.Exit(code), or main returning (code 0)
Exits(code) == exit' = code /\ pc' = "cli.exited"

\* flag.Parse(): an option that cannot be set ends the process with code 2.
CliParse ==
  /\ pc = "cli.parse"
  /\ IF ParseT(threshold, argv.t).err
     THEN Exits(2) /\ UNCHANGED threshold
     ELSE /\ threshold' = ParseT(threshold, argv.t).v
          /\ pc' = "cli.args"
          /\ UNCHANGED exit
  /\ UNCHANGED <<argv, out, d, ret>>
  /\ UNCHANGED <<lib, other>>

\* run: the version command and the count of positional arguments
CliArgs ==
  /\ pc = "cli.args"
  /\ IF Len(argv.pos) = 1 /\ argv.pos[1] = "version"
     THEN Exits(0) /\ out' = [out EXCEPT !.printed = TRUE]
     ELSE IF Len(argv.pos) # 2
     THEN Exits(1) /\ UNCHANGED out
     ELSE pc' = "cli.read" /\ UNCHANGED <<exit, out>>
  /\ UNCHANGED <<argv, threshold, d, ret>>
  /\ UNCHANGED <<lib, other>>

\* open(p): a file that cannot be opened is fatal.
Opens(p) == p # "missing.png"

\* run: img1 := readImage(flag.Arg(0)); img2 := readImage(flag.Arg(1))
CliRead ==
  /\ pc = "cli.read"
  /\ IF Opens(argv.pos[1]) /\ Opens(argv.pos[2])
     THEN pc' = "cli.compare" /\ UNCHANGED exit
     ELSE Exits(1)
  /\ UNCHANGED <<argv, threshold, out, d, ret>>
  /\ UNCHANGED <<lib, other>>

\* newDiffer(): the algorithms it knows.
Supported(algorithm) == algorithm \in {"binary", "perceptual"}

\* The exit code of a call that did not give a result, 0 if it did.
\* A panic of a goroutine ends the process with code 2, log.Fatal with 1.
Fatal(r) == IF r.err = "panic" THEN 2 ELSE IF r.err # "nil" THEN 1 ELSE 0

\* run: res, n, err := newDiffer().Compare(img1, img2)
CliCompareOf(dd, r) ==
  /\ d' = dd
  /\ ret' = r
  /\ IF Fatal(r) # 0 THEN Exits(Fatal(r)) ELSE pc' = "cli.decide" /\ UNCHANGED exit

CliCompare ==
  /\ pc = "cli.compare"
  /\ IF ~Supported(argv.a)
     THEN Exits(1) /\ UNCHANGED <<d, ret>>
     ELSE IF argv.a = "binary"
     THEN CliCompareOf(d, BinaryCompare(a, b))
     ELSE CliCompareOf(NewPerceptual(cfg.gamma, cfg.lum, cfg.fov, cfg.cf, cfg.nocolor),
                       Compare(NewPerceptual(cfg.gamma, cfg.lum, cfg.fov, cfg.cf, cfg.nocolor),
                               white, a, b))
  /\ UNCHANGED <<argv, threshold, out>>
  /\ UNCHANGED <<lib, other>>

AboveOrAt(n, total, v) == n * v.den >= v.num * total

\* float64(n) / float64(total) > v, for the fraction v
Above(n, total, v) == n * v.den > v.num * total

\* threshold.percent && !(np > threshold.value) || !(float64(n) > threshold.value)
\* with np := float64(n) / float64(Dx * Dy)
Within(v, n, total) ==
  (v.percent /\ ~Above(n, total, v.value)) \/ ~Above(n, 1, v.value)

\* run: the threshold, the report, the exit code and the diff image
CliDecide ==
  /\ pc = "cli.decide"
  /\ IF Within(threshold, ret.n, Dx(ret.img[1]) * Dy(ret.img[1]))
     THEN Exits(0) /\ UNCHANGED out
     ELSE Exits(1) /\ out' = [printed |-> TRUE, written |-> argv.o # ""]
  /\ UNCHANGED <<argv, threshold, d, ret>>
  /\ UNCHANGED <<lib, other>>

NextCli == CliParse \/ CliArgs \/ CliRead \/ CliCompare \/ CliDecide

SpecCli == InitCli /\ [][NextCli]_vars

(***************************************************************************)
(* Properties of Compare                                                   *)
(***************************************************************************)
OpaqueBlack == [R |-> 0, G |-> 0, B |-> 0, A |-> 255]

OpaqueRed == [R |-> 255, G |-> 0, B |-> 0, A |-> 255]

Returned == pc = "done" /\ ret.err = "nil"

\* The pixels of the image Compare returned.
RetPixels == { ret.img[1].pix[q[2]][q[1]] : q \in (0..(a.w - 1)) \X (0..(a.h - 1)) }

\* C1: when the widths or the heights of a and b differ, Compare returns
\* ErrSize with a nil image and the count -1, and in no state of the call is
\* there a diff image, a LAB buffer or a pyramid, nor has a task been started.
C1_SizeMismatch ==
  (a.w # b.w \/ a.h # b.h) =>
     /\ diff = <<>>
     /\ aLAB = <<>> /\ bLAB = <<>> /\ aLap = <<>> /\ bLap = <<>>
     /\ ta = "none" /\ tb = "none" /\ wg = 0
     /\ pc \in {"init", "new", "check", "done"}
     /\ pc = "done" => ret = [img |-> <<>>, n |-> -1, err |-> "images have different sizes"]

C1_Witness == pc = "done" /\ a.w = b.w /\ a.h # b.h /\ ret.err = ErrSize

\* When Compare(A, A) returns, the count is 0 and every pixel of the diff
\* image is opaque black.
IdenticalWhenReturned ==
  (pc = "done" /\ a = b) =>
     /\ ret.err = "nil"
     /\ ret.n = 0
     /\ RetPixels = {OpaqueBlack}

\* C2: for any image A and any configuration, Compare(A, A) returns: the
\* count is 0 and every pixel of the diff image is opaque black.
C2_Identical ==
  a = b => pc # "panic" /\ IdenticalWhenReturned

\* C3: Compare(A, B) and Compare(B, A) return the same count and the same
\* pass/fail decision for every pixel.
C3_Symmetric ==
  /\ Returned => ret = Compare(d, white, b, a)
  /\ pc = "panic" => Compare(d, white, b, a) = Panicked

C3_Witness == Returned /\ a # b /\ ret.n > 0 /\ ret.n < a.w * a.h

\* The exit of a run whose Compare gave a result.
Decided == pc = "cli.exited" /\ ret.err = "nil"

\* The pixels of the diff image of a run.
Total == Dx(ret.img[1]) * Dy(ret.img[1])

\* C4: with an absolute threshold t given to -t, run exits with a non-zero
\* code if and only if the count Compare returned is strictly greater than
\* t; one differing pixel gives a non-zero exit with -t 0 and exit code 0
\* with -t 1.
C4_Absolute ==
  /\ \A t \in {0, 1, 3} :
       (Decided /\ argv.t = << <<ToString(t)>> >>) => (exit # 0 <=> ret.n > t)
  /\ (Decided /\ argv.t = << <<"-", "1">> >>) => exit # 0
  /\ (Decided /\ ~threshold.percent) =>
       (exit # 0 <=> ret.n * threshold.value.den > threshold.value.num)
  /\ (Decided /\ ret.n = 1 /\ argv.t = << <<"0">> >>) => exit = 1
  /\ (Decided /\ ret.n = 1 /\ argv.t = << <<"1">> >>) => exit = 0

C4_Witness ==
  Decided /\ argv.a = "perceptual" /\ argv.t = << <<"1">> >> /\ ret.n = 1 /\ exit = 0

\* C5: with a threshold given as a percentage p%, run exits with a non-zero
\* code if and only if the differing pixels, as a percentage of the pixels
\* of the image, are above p.
C5_Percentage ==
  /\ (Decided /\ argv.t = << <<"5", "0", "%">> >>) => (exit # 0 <=> 100 * ret.n > 50 * Total)
  /\ (Decided /\ argv.t = << <<"2", "5", "%">> >>) => (exit # 0 <=> 100 * ret.n > 25 * Total)
  /\ (Decided /\ argv.t = << <<"0", ".", "5", "%">> >>) => (exit # 0 <=> 200 * ret.n > Total)

\* C6: without a -t option the threshold is 0, not a percentage, and run
\* exits with a non-zero code whenever Compare reports at least one
\* differing pixel.
C6_DefaultZero ==
  (Decided /\ argv.t = <<>>) =>
     /\ threshold = [value |-> [num |-> 0, den |-> 1], percent |-> FALSE]
     /\ ret.n >= 1 => exit # 0

\* C7: the diff image a successful Compare returns has the width and height
\* of the inputs, each pixel is opaque black or opaque red, and the count
\* is the number of red pixels.
C7_DiffImage ==
  Returned =>
     /\ ret.img[1].w = a.w /\ ret.img[1].h = a.h
     /\ DOMAIN ret.img[1].pix = 0..(a.h - 1)
     /\ \A py \in 0..(a.h - 1) : DOMAIN ret.img[1].pix[py] = 0..(a.w - 1)
     /\ RetPixels \subseteq {OpaqueBlack, OpaqueRed}
     /\ ret.n = Cardinality({ q \in (0..(a.w - 1)) \X (0..(a.h - 1)) :
                                ret.img[1].pix[q[2]][q[1]] = OpaqueRed })
     /\ 0 <= ret.n /\ ret.n <= a.w * a.h

C7_Witness == Returned /\ RetPixels = {OpaqueBlack, OpaqueRed} /\ ret.n = 1

\* C8: for the same images, gamma, luminance, field of view and colour
\* factor, the count with the colour test (nocolor = false) is at least the
\* count without it (nocolor = true), and every pixel failing without it
\* fails with it.
C8_ColorAddsFailures ==
  (Returned /\ ~d.nocolor) =>
     /\ ret.n >= Compare([d EXCEPT !.nocolor = TRUE], white, a, b).n
     /\ \A q \in (0..(a.w - 1)) \X (0..(a.h - 1)) :
          Compare([d EXCEPT !.nocolor = TRUE], white, a, b).img[1].pix[q[2]][q[1]] = OpaqueRed
             => ret.img[1].pix[q[2]][q[1]] = OpaqueRed

C8_Witness ==
  /\ Returned /\ ~d.nocolor
  /\ ret.n > Compare([d EXCEPT !.nocolor = TRUE], white, a, b).n

\* The aggregation loop runs, or has run, over the buffers.
Aggregating == pc = "loop" \/ Returned

\* C9, the states: the loop reads the four buffers only when both tasks
\* have written theirs and ended and wg.Wait has seen the counter at zero,
\* and Compare returns only with every pixel of diff painted.
C9_JoinBeforeRead ==
  /\ Aggregating =>
       /\ ta = "exit" /\ tb = "exit" /\ wg = 0
       /\ aLAB # <<>> /\ bLAB # <<>> /\ aLap # <<>> /\ bLap # <<>>
  /\ Returned => \A c \in RetPixels : c.A = 255
  /\ Returned => y = a.h /\ x = 0

\* C9, the steps: a task's buffers change only in that task's own step,
\* once, and no buffer changes once the loop runs.
C9_OwnBuffers ==
  /\ (aLAB' # aLAB \/ aLap' # aLap) =>
        ta = "run" /\ ta' = "done" /\ bLAB' = bLAB /\ bLap' = bLap /\ diff' = diff
  /\ (bLAB' # bLAB \/ bLap' # bLap) =>
        tb = "run" /\ tb' = "done" /\ aLAB' = aLAB /\ aLap' = aLap /\ diff' = diff
  /\ Aggregating => UNCHANGED <<aLAB, bLAB, aLap, bLap>>

\* C9: within one Compare the two tasks write only their own buffers, the
\* aggregation loop reads the buffers only after both tasks have finished
\* and wg.Wait has returned, and Compare returns only after every pixel has
\* been aggregated.
C9_ForkJoin == [](C9_JoinBeforeRead) /\ [][C9_OwnBuffers]_vars

C9_Witness == pc = "loop" /\ x = 1 /\ y = 1 /\ ta = "exit" /\ tb = "exit"

\* C10: for equal-sized inputs of any width and height from 1 up, no
\* neighbour index of the pyramid builder is out of range after the
\* reflection, and no step of Compare faults.
C10_NoFault ==
  (a.w = b.w /\ a.h = b.h) =>
     /\ pc # "panic"
     /\ \A v \in 0..(a.w - 1), i \in -2..2 : Reflect(v + i, a.w) \in 0..(a.w - 1)
     /\ \A v \in 0..(a.h - 1), j \in -2..2 : Reflect(v + j, a.h) \in 0..(a.h - 1)

\* The exponents k with 2^k above the differ's odp.
Above2(odp) == { k \in 0..29 : FGt(FInt(2 ^ k), odp) }

\* C11: NewPerceptual sets ai to the smallest k >= 0 with 2^k > odp, capped
\* at lapLevels - 1, so that 0 <= ai < lapLevels and ai is the index of a
\* level of the pyramids.
C11_AdaptIndex ==
  pc = "check" =>
     /\ d.odp = Odp(cfg.fov)
     /\ d.ai = IF \E k \in Above2(d.odp) : k < lapLevels - 1
               THEN CHOOSE k \in Above2(d.odp) : \A j \in Above2(d.odp) : k <= j
               ELSE lapLevels - 1
     /\ 0 <= d.ai /\ d.ai < lapLevels
     /\ d.ai \in DOMAIN labLap(a, d.gamma, d.lum, white).lap

C11_Witness ==
  /\ pc = "check" /\ d.ai = lapLevels - 1
  /\ Above2(d.odp) # {} /\ \A k \in Above2(d.odp) : k > lapLevels - 1

\* The differ NewPerceptual gave, from the arguments of the call.
Fresh == NewPerceptual(cfg.gamma, cfg.lum, cfg.fov, cfg.cf, cfg.nocolor)

\* C12, the states: once set, the reference white and the differ are what
\* package init and NewPerceptual made them, and each of two Compare calls
\* on the differ returns what it returns when run alone.
C12_AsAlone ==
  /\ pc # "init" => white = whiteXYZ
  /\ pc \notin {"init", "new"} => d = Fresh
  /\ pc = "done" => ret = Compare(Fresh, whiteXYZ, a, b)
  /\ other # NoRet => other = Compare(Fresh, whiteXYZ, b, a)

\* C12, the steps: the reference white is assigned by package init only,
\* the differ by NewPerceptual only; no step of a Compare changes either.
C12_NoWrites ==
  /\ white' # white => pc = "init"
  /\ d' # d => pc = "new"
  /\ pc' # "init"

\* C12: Compare writes neither the reference white nor the differ, which
\* are assigned once, in package init and in NewPerceptual, so Compare calls
\* running concurrently on one differ each return the result of the call
\* run alone.
C12_NoSharedState == [](C12_AsAlone) /\ [][C12_NoWrites]_vars

C12_Witness ==
  /\ pc = "loop" /\ npix > 0
  /\ other.err = "nil" /\ other.n > 0

\* C13: every coordinate labLap reads of an image lies inside the image's
\* bounds, whatever their origin, and Compare returns for two images what
\* it returns for the same pixels in bounds that start at (0, 0).
C13_OriginFree ==
  /\ \A m \in {a, b} : \A px \in 0..(Dx(m) - 1), py \in 0..(Dy(m) - 1) :
        /\ px \in m.x0..(m.x0 + m.w - 1)
        /\ py \in m.y0..(m.y0 + m.h - 1)
  /\ Returned =>
        ret = Compare(d, white, [a EXCEPT !.x0 = 0, !.y0 = 0], [b EXCEPT !.x0 = 0, !.y0 = 0])

=============================================================================
